---- MODULE Spec2Model ----
(***************************************************************************)
(* The damage-formula compiler of src/module/system/damage/formula.ts.     *)
(*                                                                         *)
(* Strings the compiler produces are modelled as sequences of tokens, so   *)
(* that the regular expressions of the source (hasOperators,               *)
(* ensureValidFormulaHead) can look at what a string contains; Render      *)
(* turns a token sequence into the text the source would have built.       *)
(* null and "" are both the empty token sequence: the source only ever     *)
(* tests such values for truthiness.  A nullable string field holds NULL,  *)
(* and the tri-state `critical` flag holds "null", "true" or "false".      *)
(***************************************************************************)
EXTENDS Integers, Sequences, FiniteSets, TLC

VARIABLES
    damage,      \* the caller's DamageFormulaData object
    original,    \* the definition as the caller built it (history variable)
    degree,      \* the DegreeOfSuccessIndex passed to createDamageFormula
    critRule,    \* game.settings.get("pf2e", "critRule")
    result,      \* what the first call of createDamageFormula returned
    result2,     \* what the second call with the same arguments returned
    terms,       \* the argument of a direct call of combinePartialTerms
    doubleDice,  \* the doubleDice option of that call
    expression,  \* what that call returned
    grouped,     \* the type map the first call built
    pooled,      \* the instances the first call pooled its formula from
    pc

vars == <<damage, original, degree, critRule, result, result2, terms, doubleDice,
          expression, grouped, pooled, pc>>

----------------------------------------------------------------------------
(* Bounds of the model *)

MaxDiceNumber == 1
MaxModifier == 1
MaxTerms == 3

----------------------------------------------------------------------------
(* Values imported by formula.ts *)

NULL == "null"

DEGREE_OF_SUCCESS ==
    [CRITICAL_FAILURE |-> 0, FAILURE |-> 1, SUCCESS |-> 2, CRITICAL_SUCCESS |-> 3]

DegreeOfSuccessIndex == {0, 1, 2, 3}

CRITICAL_INCLUSION ==
    [DOUBLE_ON_CRIT |-> "null", CRITICAL_ONLY |-> "true", DONT_DOUBLE_ON_CRIT |-> "false"]

CriticalInclusion == {"null", "true", "false"}

\* DamageCategoryUnique | null
DamageCategory == {NULL, "persistent", "precision", "splash"}

CritRules == {"doubledamage", "doubledice"}

----------------------------------------------------------------------------
(* Tokens of a formula string *)

Dice(n, f) == [k |-> "dice", n |-> n, f |-> f, s |-> ""]
Num(n) == [k |-> "num", n |-> n, f |-> 0, s |-> ""]
Op(s) == [k |-> "op", n |-> 0, f |-> 0, s |-> s]
Flavor(s) == [k |-> "flavor", n |-> 0, f |-> 0, s |-> s]
Punct(s) == [k |-> "punct", n |-> 0, f |-> 0, s |-> s]

Plus == Op(" + ")
Minus == Op(" - ")
Times == Op(" * ")
LP == Punct("(")
RP == Punct(")")
LBrace == Punct("{")
RBrace == Punct("}")
Comma == Punct(",")

\* The text of one token
RenderToken(t) ==
    CASE t.k = "dice" -> ToString(t.n) \o "d" \o ToString(t.f)
      [] t.k = "num" -> ToString(t.n)
      [] t.k = "flavor" -> "[" \o t.s \o "]"
      [] OTHER -> t.s

RECURSIVE Render(_)
Render(ts) == IF ts = <<>> THEN "" ELSE RenderToken(Head(ts)) \o Render(Tail(ts))

----------------------------------------------------------------------------
(* Array helpers: flat, join, sum, groupBy, sortBy *)

RECURSIVE Flat(_)
Flat(ss) == IF ss = <<>> THEN <<>> ELSE Head(ss) \o Flat(Tail(ss))

\* Array.prototype.join over token sequences
RECURSIVE Join(_, _)
Join(ss, sep) ==
    IF ss = <<>> THEN <<>>
    ELSE IF Len(ss) = 1 THEN Head(ss)
    ELSE Head(ss) \o <<sep>> \o Join(Tail(ss), sep)

RECURSIVE sum(_)
sum(ns) == IF ns = <<>> THEN 0 ELSE Head(ns) + sum(Tail(ns))

Abs(n) == IF n < 0 THEN -n ELSE n

Range(s) == {s[i] : i \in 1..Len(s)}

Map(s, F(_)) == [i \in 1..Len(s) |-> F(s[i])]

\* The keys of groupBy's Map, in the order of their first occurrence
RECURSIVE KeysInOrder(_, _)
KeysInOrder(ks, seen) ==
    IF ks = <<>> THEN <<>>
    ELSE IF Head(ks) \in seen THEN KeysInOrder(Tail(ks), seen)
    ELSE <<Head(ks)>> \o KeysInOrder(Tail(ks), seen \cup {Head(ks)})

----------------------------------------------------------------------------
(* DamagePartialTerm and DamagePartial *)

\* `dice: null`
NoDice == [present |-> FALSE, number |-> 0, faces |-> 0]

DiceOf(n, f) == [present |-> TRUE, number |-> n, faces |-> f]

\* Number(dieSize.replace("d", ""))
FacesOf(dieSize) ==
    CASE dieSize = "d4" -> 4
      [] dieSize = "d6" -> 6
      [] dieSize = "d8" -> 8
      [] dieSize = "d10" -> 10
      [] dieSize = "d12" -> 12

----------------------------------------------------------------------------
(* hasOperators, ensureValidFormulaHead, sumExpression *)

\* Whether the text of a token has one of the characters - + * /
HasOperatorChar(t) ==
    \/ t.k = "op"
    \/ t.k \in {"dice", "num"} /\ t.n < 0

hasOperators(formula) == \E i \in 1..Len(formula) : HasOperatorChar(formula[i])

\* /^\(.*\)$/
IsWrapped(formula) ==
    Len(formula) >= 2 /\ formula[1] = LP /\ formula[Len(formula)] = RP

\* /^\d+(d\d+)?$/
IsSimple(formula) ==
    Len(formula) = 1 /\ formula[1].k \in {"dice", "num"} /\ formula[1].n >= 0

ensureValidFormulaHead(formula) ==
    IF formula = <<>> THEN <<>>
    ELSE IF IsWrapped(formula) \/ IsSimple(formula) THEN formula
    ELSE <<LP>> \o formula \o <<RP>>

NotEmpty(e) == e # <<>>

\* A doubling that does not enclose what it doubles
DoubledUnenclosed(summed) == <<Num(2), Times>> \o summed

\* `2 * ${enclosed}`, enclosed being summed in parentheses when it has operators
Doubled(summed) ==
    <<Num(2), Times>> \o (IF hasOperators(summed) THEN <<LP>> \o summed \o <<RP>> ELSE summed)

Summed(summed, double) == IF double THEN Doubled(summed) ELSE summed

sumExpression(ts, double) ==
    IF \A i \in 1..Len(ts) : ts[i] = <<>> THEN <<>>
    ELSE Summed(Join(SelectSeq(ts, NotEmpty), Plus), double)

----------------------------------------------------------------------------
(* combinePartialTerms *)

\* Array.prototype.sort with sortBy((t) => -t.dice.faces): stable, larger faces first
RECURSIVE InsertByFaces(_, _)
InsertByFaces(sorted, t) ==
    IF sorted = <<>> THEN <<t>>
    ELSE IF Head(sorted).dice.faces >= t.dice.faces
         THEN <<Head(sorted)>> \o InsertByFaces(Tail(sorted), t)
         ELSE <<t>> \o sorted

RECURSIVE SortByFaces(_)
SortByFaces(ts) ==
    IF ts = <<>> THEN <<>>
    ELSE InsertByFaces(SortByFaces(SubSeq(ts, 1, Len(ts) - 1)), ts[Len(ts)])

\* `!!p.dice && p.dice.number > 0`
HasPositiveDice(p) == p.dice.present /\ p.dice.number > 0

\* The dice partials that combinePartialTerms groups
GroupedDice(ts) == SelectSeq(ts, HasPositiveDice)

\* The faces of the dice partials
FacesIn(dice) == [i \in 1..Len(dice) |-> dice[i].dice.faces]

\* sum(terms.map((d) => d.dice.number)) of the group with f faces
GroupNumber(dice, f) ==
    sum([i \in 1..Len(dice) |-> IF dice[i].dice.faces = f THEN dice[i].dice.number ELSE 0])

\* One combined dice for every key of groupBy(dice, (t) => t.dice.faces)
GroupsOf(dice, faces) == [i \in 1..Len(faces) |-> DiceOf(GroupNumber(dice, faces[i]), faces[i])]

\* [...groupBy(dice, (t) => t.dice.faces).values()] with the dice counts summed
CombinedDice(dice) == GroupsOf(dice, KeysInOrder(FacesIn(dice), {}))

IsPositive(d) == d.number > 0

\* The text of one dice group
DiceTerm(d, dbl) ==
    IF dbl THEN <<LP, Dice(d.number * 2, d.faces), Flavor("doubled"), RP>>
    ELSE <<Dice(d.number, d.faces)>>

\* diceTerms.join(" + ")
DiceText(positiveDice, dbl) ==
    Join([i \in 1..Len(positiveDice) |-> DiceTerm(positiveDice[i], dbl)], Plus)

\* Math.abs(constant), filtered out when 0 and doubled with the dice
ConstantText(constant, dbl) ==
    IF Abs(constant) = 0 THEN <<>>
    ELSE IF dbl THEN <<Num(2), Times, Num(Abs(constant))>>
    ELSE <<Num(Abs(constant))>>

\* The separator of the final join
ConstantOperator(constant) == IF constant > 0 THEN Plus ELSE Minus

\* terms.reduce((total, p) => total + p.modifier, 0)
ConstantOf(ts) == sum([i \in 1..Len(ts) |-> ts[i].modifier])

\* The final term
FinalTerm(diceText, constant, dbl) ==
    Join(SelectSeq(<<diceText, ConstantText(constant, dbl)>>, NotEmpty),
         ConstantOperator(constant))

combinePartialTerms(ts, dbl) ==
    FinalTerm(DiceText(SelectSeq(CombinedDice(SortByFaces(GroupedDice(ts))), IsPositive), dbl),
              ConstantOf(ts), dbl)

----------------------------------------------------------------------------
(* createPartialFormulas *)

\* A processing order with splash ahead of precision
categoriesSplashFirst == <<NULL, "persistent", "splash", "precision">>

\* The fixed processing order of the categories
categories == <<NULL, "persistent", "precision", "splash">>

\* partials.get(category) ?? [] of the Map built by groupBy(partials, (p) => p.category)
GroupOf(partials, category) == SelectSeq(partials, LAMBDA p : p.category = category)

\* (partials.get(category) ?? []).filter((p) => criticalInclusion.includes(p.critical))
RequestedPartials(partials, category, criticalInclusion) ==
    SelectSeq(partials, LAMBDA p : p.category = category /\ p.critical \in criticalInclusion)

\* A precision or splash expression with operators goes in parentheses
Term(expr, category) ==
    IF category \in {"precision", "splash"} /\ hasOperators(expr)
    THEN <<LP>> \o expr \o <<RP>>
    ELSE expr

Flavored(term, category) ==
    IF term # <<>> /\ category # NULL /\ category # "persistent"
    THEN term \o <<Flavor(category)>>
    ELSE term

\* One category's flavored term of createPartialFormulas
CategoryTerm(partials, category, criticalInclusion, dbl) ==
    Flavored(Term(combinePartialTerms(RequestedPartials(partials, category, criticalInclusion),
                                      dbl),
                  category),
             category)

createPartialFormulas(partials, criticalInclusion, dbl) ==
    SelectSeq([i \in 1..Len(categories) |->
                  CategoryTerm(partials, categories[i], criticalInclusion, dbl)],
              NotEmpty)

----------------------------------------------------------------------------
(* The DamageTypeMap: a Map in insertion order, as a sequence of entries *)

MapHas(typeMap, damageType) == \E i \in 1..Len(typeMap) : typeMap[i].damageType = damageType

\* typeMap.get(damageType) ?? []
MapGet(typeMap, damageType) ==
    IF MapHas(typeMap, damageType)
    THEN typeMap[CHOOSE i \in 1..Len(typeMap) : typeMap[i].damageType = damageType].partials
    ELSE <<>>

\* typeMap.set(damageType, list): a new key goes last, a known key keeps its place
MapSet(typeMap, damageType, list) ==
    IF MapHas(typeMap, damageType)
    THEN [i \in 1..Len(typeMap) |->
             IF typeMap[i].damageType = damageType
             THEN [damageType |-> damageType, partials |-> list]
             ELSE typeMap[i]]
    ELSE Append(typeMap, [damageType |-> damageType, partials |-> list])

\* list.push(partial); typeMap.set(damageType, list)
MapPush(typeMap, damageType, partial) ==
    MapSet(typeMap, damageType, Append(MapGet(typeMap, damageType), partial))

----------------------------------------------------------------------------
(* instancesFromTypeMap *)

\* game.i18n.localize(CONFIG.PF2E.damageTypes[damageType] ?? damageType)
Localize(damageType) == "localize(" \o damageType \o ")"

\* game.i18n.format("PF2E.Damage.PersistentTooltip", { damageType })
PersistentTooltip(damageType) == "PersistentTooltip(" \o Localize(damageType) \o ")"

RECURSIVE JoinStrings(_, _)
JoinStrings(ss, sep) ==
    IF ss = <<>> THEN ""
    ELSE IF Len(ss) = 1 THEN Head(ss)
    ELSE Head(ss) \o sep \o JoinStrings(Tail(ss), sep)

\* labelParts[0].replace(/^\s+\+/, ""): a label is a sequence of pieces of text, and a
\* leading " +" is a piece of its own
StripLeadingPlus(label) ==
    IF label # <<>> /\ Head(label) = " +" THEN Tail(label) ELSE label

\* Whether the dice of the non-critical partials are doubled
DoubleDice(deg, criticalInclusion, rule) ==
    /\ deg = DEGREE_OF_SUCCESS.CRITICAL_SUCCESS
    /\ "null" \in criticalInclusion
    /\ rule = "doubledice"

\* A subtotal doubling that does not look at the dice doubling
DoubleSubtotalAlways(deg, dbl) == deg = DEGREE_OF_SUCCESS.CRITICAL_SUCCESS

\* Whether the non-critical subtotal is doubled
DoubleSubtotal(deg, dbl) == deg = DEGREE_OF_SUCCESS.CRITICAL_SUCCESS /\ ~dbl

\* An inclusion set that does not look at the outcome
NonCriticalInclusionAlways(deg) ==
    {CRITICAL_INCLUSION.DOUBLE_ON_CRIT, CRITICAL_INCLUSION.DONT_DOUBLE_ON_CRIT}

\* The inclusion set of the non-critical sub-expression
NonCriticalInclusion(deg) ==
    IF deg = DEGREE_OF_SUCCESS.CRITICAL_SUCCESS
    THEN {CRITICAL_INCLUSION.DOUBLE_ON_CRIT}
    ELSE {CRITICAL_INCLUSION.DOUBLE_ON_CRIT, CRITICAL_INCLUSION.DONT_DOUBLE_ON_CRIT}

CriticalOnlyInclusion ==
    {CRITICAL_INCLUSION.CRITICAL_ONLY, CRITICAL_INCLUSION.DONT_DOUBLE_ON_CRIT}

\* sumExpression(createPartialFormulas(groups, { criticalInclusion, doubleDice }), { double })
NonCriticalSum(partials, deg, criticalInclusion, dbl) ==
    sumExpression(createPartialFormulas(partials, criticalInclusion, dbl),
                  DoubleSubtotal(deg, dbl))

nonCriticalDamage(partials, deg, rule) ==
    NonCriticalSum(partials, deg, NonCriticalInclusion(deg),
                   DoubleDice(deg, NonCriticalInclusion(deg), rule))

criticalDamage(partials, deg) ==
    IF deg # DEGREE_OF_SUCCESS.CRITICAL_SUCCESS THEN <<>>
    ELSE sumExpression(createPartialFormulas(partials, CriticalOnlyInclusion, FALSE), FALSE)

\* sumExpression(degree ? [nonCriticalDamage, criticalDamage] : [nonCriticalDamage])
summedDamage(nonCritical, critical, deg) ==
    sumExpression(IF deg # 0 THEN <<nonCritical, critical>> ELSE <<nonCritical>>, FALSE)

\* typePartials.flatMap((p) => p.materials ?? [])
MaterialFlavor(typePartials) == Flat([i \in 1..Len(typePartials) |-> typePartials[i].materials])

\* [typeFlavor, persistentFlavor, materialFlavor].flat().join(",")
AllFlavor(damageType, typePartials, persistent) ==
    JoinStrings((IF damageType = "untyped" /\ ~persistent THEN <<>> ELSE <<damageType>>)
                    \o (IF persistent THEN <<"persistent">> ELSE <<>>)
                    \o MaterialFlavor(typePartials),
                ",")

FlavorTag(allFlavor) == IF Len(allFlavor) > 0 THEN <<Flavor(allFlavor)>> ELSE <<>>

\* The flavor tag of an instance: "" or "[type,persistent,materials...]"
flavor(damageType, typePartials, persistent) ==
    FlavorTag(AllFlavor(damageType, typePartials, persistent))

\* categories.flatMap((c) => groups.get(c) ?? [])
FlattenedDamage(partials) ==
    Flat([i \in 1..Len(categories) |-> GroupOf(partials, categories[i])])

IsCriticalOnly(d) == d.critical = "true"

NotCriticalOnly(d) == d.critical # "true"

\* The partials of the breakdown, those of a critical success alone last
BreakdownDamage(flattenedDamage, deg) ==
    IF deg = DEGREE_OF_SUCCESS.CRITICAL_SUCCESS
    THEN SelectSeq(flattenedDamage, NotCriticalOnly) \o SelectSeq(flattenedDamage, IsCriticalOnly)
    ELSE SelectSeq(flattenedDamage, NotCriticalOnly)

DamageTypeLabel(damageType, first) ==
    IF first.category = "persistent" THEN PersistentTooltip(damageType)
    ELSE Localize(damageType)

\* The labels, the first of them with the damage type
LabelParts(damageType, breakdownDamage) ==
    [i \in 1..Len(breakdownDamage) |->
        IF i = 1
        THEN StripLeadingPlus(breakdownDamage[1].label)
                 \o <<" ", DamageTypeLabel(damageType, breakdownDamage[1])>>
        ELSE breakdownDamage[i].label]

\* The breakdown labels of an instance
breakdown(damageType, partials, deg) ==
    LabelParts(damageType, BreakdownDamage(FlattenedDamage(partials), deg))

\* enclosed && flavor ? `${enclosed}${flavor}` : enclosed
FormulaOfInstance(enclosed, fl) == IF enclosed = <<>> THEN <<>> ELSE enclosed \o fl

\* The instance of one entry of the type map; `formula` is empty when there is none.
\* damageType, persistent, nonCritical and critical record what the instance was made
\* from: the source's AssembledFormula keeps only formula and breakdown.
Instance(entry, partials, nonCritical, critical, deg, persistent) ==
    [formula |-> IF partials = <<>> THEN <<>>
                 ELSE FormulaOfInstance(
                          ensureValidFormulaHead(summedDamage(nonCritical, critical, deg)),
                          flavor(entry.damageType, entry.partials, persistent)),
     breakdown |-> breakdown(entry.damageType, partials, deg),
     damageType |-> entry.damageType,
     persistent |-> persistent,
     nonCritical |-> nonCritical,
     critical |-> critical]

InstanceFrom(entry, partials, deg, persistent, rule) ==
    Instance(entry, partials, nonCriticalDamage(partials, deg, rule),
             criticalDamage(partials, deg), deg, persistent)

\* typePartials.filter((p) => (p.category === "persistent") === persistent)
PersistencePartials(typePartials, persistent) ==
    SelectSeq(typePartials, LAMBDA p : (p.category = "persistent") = persistent)

InstanceOf(entry, deg, persistent, rule) ==
    InstanceFrom(entry, PersistencePartials(entry.partials, persistent), deg, persistent, rule)

HasFormula(i) == i.formula # <<>>

instancesFromTypeMap(typeMap, deg, persistent, rule) ==
    SelectSeq([i \in 1..Len(typeMap) |-> InstanceOf(typeMap[i], deg, persistent, rule)],
              HasFormula)

----------------------------------------------------------------------------
(* createDamageFormula *)

\* A deepClone that hands back the object it was given
deepCloneSameObject(heap, ref) == [heap |-> heap, ref |-> ref]

\* deepClone(damage): a new object of the heap, equal to the one `ref` names
deepClone(heap, ref) == [heap |-> Append(heap, heap[ref]), ref |-> Len(heap) + 1]

IsSplashDice(e) == e.category = "splash"

IsSplashModifier(m) == m.damageCategory = "splash"

\* A failure filter that forgets the modifiers
SplashFilterDiceOnly(d, deg) ==
    IF deg = DEGREE_OF_SUCCESS.FAILURE
    THEN [d EXCEPT !.dice = SelectSeq(d.dice, IsSplashDice)]
    ELSE d

\* A failure filter that takes the base term for an entry like the others
SplashFilterBaseToo(d, deg) ==
    IF deg = DEGREE_OF_SUCCESS.FAILURE
    THEN [d EXCEPT !.base.diceNumber = IF d.base.category = "splash" THEN @ ELSE 0,
                   !.base.modifier = IF d.base.category = "splash" THEN @ ELSE 0,
                   !.dice = SelectSeq(d.dice, IsSplashDice),
                   !.modifiers = SelectSeq(d.modifiers, IsSplashModifier)]
    ELSE d

\* The filter of the failure outcome: only splash dice and modifiers are kept
SplashFilter(d, deg) ==
    IF deg = DEGREE_OF_SUCCESS.FAILURE
    THEN [d EXCEPT !.dice = SelectSeq(d.dice, IsSplashDice),
                   !.modifiers = SelectSeq(d.modifiers, IsSplashModifier)]
    ELSE d

\* Whether the base term enters the type map
BaseContributes(base) ==
    \/ base.diceNumber # 0 /\ base.dieSize # NULL
    \/ base.modifier # 0

\* The label of the base partial
BaseLabel(base) ==
    IF base.diceNumber = 0 THEN <<ToString(base.modifier)>>
    ELSE IF base.modifier = 0 THEN <<ToString(base.diceNumber) \o base.dieSize>>
    ELSE <<ToString(base.diceNumber) \o base.dieSize
               \o (IF base.modifier < 0 THEN " - " ELSE " + ")
               \o ToString(Abs(base.modifier))>>

BasePartial(base) ==
    [label |-> BaseLabel(base),
     dice |-> IF base.diceNumber # 0 /\ base.dieSize # NULL
              THEN DiceOf(base.diceNumber, FacesOf(base.dieSize))
              ELSE NoDice,
     modifier |-> base.modifier,
     critical |-> "null",
     category |-> base.category,
     materials |-> base.materials]

\* dice.dieSize || base.dieSize || null
DieSizeOf(d, base) == IF d.dieSize # NULL THEN d.dieSize ELSE base.dieSize

\* entry.damageType ?? base.damageType
DamageTypeOf(e, base) == IF e.damageType # NULL THEN e.damageType ELSE base.damageType

DicePartial(d, base) ==
    [label |-> <<d.label>>,
     dice |-> DiceOf(d.diceNumber, FacesOf(DieSizeOf(d, base))),
     modifier |-> 0,
     critical |-> d.critical,
     category |-> d.category,
     materials |-> <<>>]

\* for (const dice of damage.dice.filter((d) => d.enabled)) { ... }
RECURSIVE AddDice(_, _, _)
AddDice(typeMap, dice, base) ==
    IF dice = <<>> THEN typeMap
    ELSE IF Head(dice).enabled /\ Head(dice).diceNumber > 0 /\ DieSizeOf(Head(dice), base) # NULL
    THEN AddDice(MapPush(typeMap, DamageTypeOf(Head(dice), base), DicePartial(Head(dice), base)),
                 Tail(dice), base)
    ELSE AddDice(typeMap, Tail(dice), base)

\* An outcome test that lets every modifier through
outcomeMatchesAlways(m, critical) == TRUE

\* Whether a modifier is compatible with the prior check result
outcomeMatches(m, critical) == critical \/ m.critical # "true"

\* modifier.damageType ??= base.damageType, on every enabled modifier
DefaultDamageType(modifiers, base) ==
    [i \in 1..Len(modifiers) |->
        IF modifiers[i].enabled /\ modifiers[i].damageType = NULL
        THEN [modifiers[i] EXCEPT !.damageType = base.damageType]
        ELSE modifiers[i]]

\* `${modifier.label} ${modifier.value < 0 ? "" : "+"}${modifier.value}`
ModifierLabel(m) ==
    <<m.label \o " " \o (IF m.value < 0 THEN "" ELSE "+") \o ToString(m.value)>>

ModifierPartial(m) ==
    [label |-> ModifierLabel(m),
     dice |-> NoDice,
     modifier |-> m.value,
     critical |-> m.critical,
     category |-> m.damageCategory,
     materials |-> <<>>]

\* for (const modifier of modifiers) { ... }
RECURSIVE AddModifiers(_, _, _, _)
AddModifiers(typeMap, modifiers, base, critical) ==
    IF modifiers = <<>> THEN typeMap
    ELSE IF Head(modifiers).enabled /\ outcomeMatches(Head(modifiers), critical)
    THEN AddModifiers(MapPush(typeMap, DamageTypeOf(Head(modifiers), base),
                              ModifierPartial(Head(modifiers))),
                      Tail(modifiers), base, critical)
    ELSE AddModifiers(typeMap, Tail(modifiers), base, critical)

\* The type map with the base partial alone
BaseMap(base) ==
    IF BaseContributes(base)
    THEN <<[damageType |-> base.damageType, partials |-> <<BasePartial(base)>>]>>
    ELSE <<>>

\* The type map of a definition that has passed the outcome filter and the defaulting
TypeMapOf(d, critical) ==
    AddModifiers(AddDice(BaseMap(d.base), d.dice, d.base), d.modifiers, d.base, critical)

\* instances.map((i) => i.formula).join(",") inside braces
PooledFormula(is) ==
    <<LBrace>> \o Join([i \in 1..Len(is) |-> is[i].formula], Comma) \o <<RBrace>>

\* instances.flatMap((i) => i.breakdown)
PooledBreakdown(is) == Flat([i \in 1..Len(is) |-> is[i].breakdown])

NoResult == [isNull |-> TRUE, formula |-> <<>>, breakdown |-> <<>>]

\* A test for the wrong end of the scale
IsCriticalSuccess(deg) == deg = DEGREE_OF_SUCCESS.CRITICAL_SUCCESS

\* Critical failure deals no damage
IsCriticalFailure(deg) == deg = DEGREE_OF_SUCCESS.CRITICAL_FAILURE

\* The persistent instances ahead of the others
AllInstancesPersistentFirst(typeMap, deg, rule) ==
    instancesFromTypeMap(typeMap, deg, TRUE, rule)
        \o instancesFromTypeMap(typeMap, deg, FALSE, rule)

\* The non-persistent instances, then the persistent ones
AllInstances(typeMap, deg, rule) ==
    instancesFromTypeMap(typeMap, deg, FALSE, rule)
        \o instancesFromTypeMap(typeMap, deg, TRUE, rule)

\* The definition the call works on, after the filter and the defaulting
Working(filtered) ==
    [filtered EXCEPT !.modifiers = DefaultDamageType(filtered.modifiers, filtered.base)]

\* What the call hands back: heap, the objects after the call; returned, null or the
\* AssembledFormula; typeMap and instances, the type map built and the instances
\* pooled on the way
Outcome(heap, typeMap, is) ==
    [heap |-> heap,
     returned |-> [isNull |-> FALSE,
                   formula |-> PooledFormula(is),
                   breakdown |-> PooledBreakdown(is)],
     typeMap |-> typeMap,
     instances |-> is]

Pooled(heap, typeMap, deg, rule) == Outcome(heap, typeMap, AllInstances(typeMap, deg, rule))

Grouped(heap, ref, working, deg, rule) ==
    Pooled([heap EXCEPT ![ref] = working],
           TypeMapOf(working, deg = DEGREE_OF_SUCCESS.CRITICAL_SUCCESS), deg, rule)

\* createDamageFormula once the definition is cloned
Cloned(cloned, deg, rule) ==
    IF IsCriticalFailure(deg)
    THEN [heap |-> cloned.heap, returned |-> NoResult, typeMap |-> <<>>, instances |-> <<>>]
    ELSE Grouped(cloned.heap, cloned.ref, Working(SplashFilter(cloned.heap[cloned.ref], deg)),
                 deg, rule)

\* The call createDamageFormula(damage, degree), `damage` being the object heap[ref]
createDamageFormula(heap, ref, deg, rule) == Cloned(deepClone(heap, ref), deg, rule)

----------------------------------------------------------------------------
(* The definitions the caller may pass *)

NonZero(n) == (-n..n) \ {0}

OneOrNone(S) == {<<>>} \cup {<<e>> : e \in S}

\* One damage type; every category and every critical flag on the base term, a dice
\* entry and a modifier entry
CategoryDefinitions ==
    [base : [diceNumber : 0..MaxDiceNumber, dieSize : {"d6"}, modifier : {0},
             damageType : {"fire"}, category : DamageCategory, materials : {<<>>}],
     dice : OneOrNone([label : {"dice1"}, diceNumber : {MaxDiceNumber},
                       dieSize : {"d4", "d6"}, damageType : {NULL},
                       category : DamageCategory, critical : CriticalInclusion,
                       enabled : {TRUE}]),
     modifiers : OneOrNone([label : {"mod1"}, value : NonZero(MaxModifier),
                            damageType : {NULL}, damageCategory : DamageCategory,
                            critical : CriticalInclusion, enabled : {TRUE}])]

\* Several damage types, persistent damage, materials, disabled modifiers, and entries
\* that leave their damage type or die size to the base term
TypeDefinitions ==
    [base : [diceNumber : {0, MaxDiceNumber}, dieSize : {NULL, "d6"}, modifier : {0},
             damageType : {"fire", "untyped"}, category : {NULL, "persistent"},
             materials : {<<>>, <<"silver">>}],
     dice : OneOrNone([label : {"dice1"}, diceNumber : {0, MaxDiceNumber},
                       dieSize : {NULL, "d6"}, damageType : {NULL, "cold"},
                       category : {NULL, "persistent"}, critical : {"null", "true"},
                       enabled : {TRUE}]),
     modifiers : OneOrNone([label : {"mod1"}, value : {MaxModifier},
                            damageType : {NULL, "cold"}, damageCategory : {NULL},
                            critical : {"null"}, enabled : BOOLEAN])]

\* Flat amounts only: a base modifier and up to two modifier entries, which may cancel
ModifierEntries(label) ==
    [label : {label}, value : NonZero(MaxModifier), damageType : {NULL, "cold"},
     damageCategory : {NULL, "splash"}, critical : {"null", "true"}, enabled : {TRUE}]

FlatDefinitions ==
    [base : [diceNumber : {0}, dieSize : {NULL}, modifier : -MaxModifier..MaxModifier,
             damageType : {"fire"}, category : {NULL}, materials : {<<>>}],
     dice : {<<>>},
     modifiers : {<<m>> : m \in ModifierEntries("mod1")}
                 \cup {<<m, n>> : m \in ModifierEntries("mod1"), n \in ModifierEntries("mod2")}]

\* The example of the specification: base 2d6 fire, a dice entry 1d4 fire splash and
\* a modifier +3 fire, each entry enabled or not
ExampleDefinitions ==
    [base : {[diceNumber |-> 2, dieSize |-> "d6", modifier |-> 0, damageType |-> "fire",
              category |-> NULL, materials |-> <<>>]},
     dice : {<<[label |-> "dice1", diceNumber |-> 1, dieSize |-> "d4",
                damageType |-> "fire", category |-> "splash", critical |-> "null",
                enabled |-> e]>> : e \in BOOLEAN},
     modifiers : {<<[label |-> "mod1", value |-> 3, damageType |-> "fire",
                     damageCategory |-> NULL, critical |-> "null",
                     enabled |-> e]>> : e \in BOOLEAN}]

Definitions ==
    CategoryDefinitions \cup TypeDefinitions \cup FlatDefinitions \cup ExampleDefinitions

----------------------------------------------------------------------------
(* The calls *)

\* The critRule setting is read on a critical success only
SettingsRead(deg) ==
    IF deg = DEGREE_OF_SUCCESS.CRITICAL_SUCCESS THEN CritRules ELSE {"doubledamage"}

Init ==
    /\ damage \in Definitions
    /\ original = damage
    /\ degree \in DegreeOfSuccessIndex
    /\ critRule \in SettingsRead(degree)
    /\ result = NoResult
    /\ result2 = NoResult
    /\ grouped = <<>>
    /\ pooled = <<>>
    /\ terms = <<>>
    /\ doubleDice = FALSE
    /\ expression = <<>>
    /\ pc = "start"

\* The caller calls createDamageFormula(damage, degree)
Compile ==
    /\ pc = "start"
    /\ \E call \in {createDamageFormula(<<damage>>, 1, degree, critRule)} :
          /\ damage' = call.heap[1]
          /\ result' = call.returned
          /\ grouped' = call.typeMap
          /\ pooled' = call.instances
    /\ pc' = "compiled"
    /\ UNCHANGED <<original, degree, critRule, result2, terms, doubleDice, expression>>

\* The caller calls createDamageFormula again, with the same arguments
Recompile ==
    /\ pc = "compiled"
    /\ \E call \in {createDamageFormula(<<damage>>, 1, degree, critRule)} :
          /\ damage' = call.heap[1]
          /\ result2' = call.returned
    /\ pc' = "recompiled"
    /\ UNCHANGED <<original, degree, critRule, result, grouped, pooled, terms, doubleDice,
                   expression>>

Next == Compile \/ Recompile

Spec == Init /\ [][Next]_vars

----------------------------------------------------------------------------
(* A direct call of combinePartialTerms, which formula.ts exports *)

DieFaces == {4, 6}

\* A DamagePartialTerm as parseTermsFromSimpleFormula makes them: a flat amount or
\* dice, either of them possibly negative
PartialTerms ==
    [modifier : NonZero(MaxModifier), dice : {NoDice}]
        \cup [modifier : {0},
              dice : {DiceOf(n, f) : n \in NonZero(MaxDiceNumber), f \in DieFaces}]

RECURSIVE SeqsUpTo(_, _)
SeqsUpTo(S, n) ==
    IF n = 0 THEN {<<>>}
    ELSE LET shorter == SeqsUpTo(S, n - 1)
         IN shorter \cup {Append(q, e) : q \in shorter, e \in S}

NoDefinition ==
    [base |-> [diceNumber |-> 0, dieSize |-> NULL, modifier |-> 0, damageType |-> "untyped",
               category |-> NULL, materials |-> <<>>],
     dice |-> <<>>,
     modifiers |-> <<>>]

InitCombine ==
    /\ damage = NoDefinition
    /\ original = damage
    /\ degree = DEGREE_OF_SUCCESS.SUCCESS
    /\ critRule = "doubledamage"
    /\ result = NoResult
    /\ result2 = NoResult
    /\ grouped = <<>>
    /\ pooled = <<>>
    /\ terms \in SeqsUpTo(PartialTerms, MaxTerms)
    /\ doubleDice \in BOOLEAN
    /\ expression = <<>>
    /\ pc = "start"

\* The caller calls combinePartialTerms(terms, { doubleDice })
Combine ==
    /\ pc = "start"
    /\ expression' = combinePartialTerms(terms, doubleDice)
    /\ pc' = "combined"
    /\ UNCHANGED <<damage, original, degree, critRule, result, result2, grouped, pooled,
                   terms, doubleDice>>

NextCombine == Combine

SpecCombine == InitCombine /\ [][NextCombine]_vars

----------------------------------------------------------------------------
(* Properties of createDamageFormula *)

Called == pc \in {"compiled", "recompiled"}

\* The formula of a fresh call on definition d
FormulaOf(d, deg) == createDamageFormula(<<d>>, 1, deg, critRule).returned.formula

HasEnabled(entries, Test(_)) ==
    \E i \in 1..Len(entries) : entries[i].enabled /\ Test(entries[i])

\* C1: whatever the definition and the critical-doubling rule, a call with the
\* critical-failure outcome returns null: no formula and no breakdown.
C1_CriticalFailureReturnsNull ==
    (Called /\ degree = DEGREE_OF_SUCCESS.CRITICAL_FAILURE)
        => /\ result.isNull
           /\ result.formula = <<>>
           /\ result.breakdown = <<>>

\* A critical failure has been compiled for a definition with a contributing base term,
\* an enabled dice entry and an enabled modifier entry
C1_Witness ==
    /\ pc = "compiled"
    /\ degree = DEGREE_OF_SUCCESS.CRITICAL_FAILURE
    /\ BaseContributes(original.base)
    /\ HasEnabled(original.dice, LAMBDA e : e.diceNumber > 0 /\ e.dieSize # NULL)
    /\ HasEnabled(original.modifiers, LAMBDA m : TRUE)
    /\ result.isNull

\* The definition with every dice and modifier entry outside the splash category removed
SplashOnly(d) ==
    [base |-> d.base,
     dice |-> SelectSeq(d.dice, LAMBDA e : e.category = "splash"),
     modifiers |-> SelectSeq(d.modifiers, LAMBDA m : m.damageCategory = "splash")]

\* C2: at the failure outcome the formula is the one of the definition's base term and
\* its splash dice and modifier entries alone: the entries of every other category are
\* removed before compilation, and the base term is kept whatever its category.
C2_FailureKeepsSplashAndBase ==
    (Called /\ degree = DEGREE_OF_SUCCESS.FAILURE)
        => /\ ~result.isNull
           /\ result.formula = FormulaOf(SplashOnly(original), DEGREE_OF_SUCCESS.SUCCESS)
           /\ \A i \in 1..Len(grouped) : \A j \in 1..Len(grouped[i].partials) :
                  LET partial == grouped[i].partials[j]
                  IN \/ partial.category = "splash"
                     \/ partial = BasePartial(original.base)

\* A failure has been compiled for a definition with a base term outside the splash
\* category, splash entries and other entries, and the other entries made a difference
C2_Witness ==
    /\ pc = "compiled"
    /\ degree = DEGREE_OF_SUCCESS.FAILURE
    /\ BaseContributes(original.base)
    /\ original.base.category # "splash"
    /\ HasEnabled(original.dice, LAMBDA e : e.category = "splash")
    /\ HasEnabled(original.modifiers, LAMBDA m : m.damageCategory \notin {"splash", "persistent"})
    /\ result.formula # FormulaOf(original, DEGREE_OF_SUCCESS.SUCCESS)
    /\ \E i \in 1..Len(result.formula) : result.formula[i] = Flavor("splash")
    /\ \E i \in 1..Len(result.formula) :
           result.formula[i] = Dice(original.base.diceNumber, FacesOf(original.base.dieSize))

\* C3: a call leaves the caller's definition as it was, base term, dice list and
\* modifier list with every modifier's damageType, and a second call with the same
\* arguments returns the same formula and the same breakdown.
C3_IdempotentAndPure ==
    /\ Called => damage = original
    /\ pc = "recompiled" => /\ result2.isNull = result.isNull
                            /\ result2.formula = result.formula
                            /\ result2.breakdown = result.breakdown

\* Two failure calls have been made on a definition that the filter and the
\* damage-type defaulting would change
C3_Witness ==
    /\ pc = "recompiled"
    /\ degree = DEGREE_OF_SUCCESS.FAILURE
    /\ HasEnabled(original.dice, LAMBDA e : e.category # "splash")
    /\ HasEnabled(original.modifiers,
                  LAMBDA m : m.damageType = NULL /\ m.damageCategory = "splash")
    /\ result.formula # <<LBrace, RBrace>>
    /\ result2 = result

----------------------------------------------------------------------------
(* Reading an expression back: operands, parentheses and category tags *)

\* The number of parentheses open after token i
RECURSIVE Depth(_, _)
Depth(ts, i) ==
    IF i = 0 THEN 0
    ELSE Depth(ts, i - 1) + (IF ts[i] = LP THEN 1 ELSE IF ts[i] = RP THEN -1 ELSE 0)

\* The opening parenthesis that the closing one at r matches
MatchingLP(ts, r) ==
    CHOOSE p \in 1..r : /\ ts[p] = LP
                        /\ Depth(ts, p - 1) = Depth(ts, r)
                        /\ \A q \in (p + 1)..(r - 1) : Depth(ts, q) > Depth(ts, r)

\* A dice or number token that is a term of the sum, not the 2 of a `2 * `
IsOperand(ts, i) ==
    /\ ts[i].k \in {"dice", "num"}
    /\ ~(i < Len(ts) /\ ts[i + 1] = Times)

IsCategoryTag(t) == t.k = "flavor" /\ t.s \in {"precision", "splash"}

\* The first token of what the tag at j is attached to
TaggedFrom(ts, j) == IF ts[j - 1] = RP THEN MatchingLP(ts, j - 1) ELSE j - 1

\* The category of the fragment that token i belongs to
CategoryAt(ts, i) ==
    IF \E j \in (i + 1)..Len(ts) : IsCategoryTag(ts[j]) /\ TaggedFrom(ts, j) <= i
    THEN ts[CHOOSE j \in (i + 1)..Len(ts) :
                IsCategoryTag(ts[j]) /\ TaggedFrom(ts, j) <= i].s
    ELSE NULL

\* none and persistent fragments carry no tag; precision comes before splash
CategoryRank(c) == IF c = "splash" THEN 3 ELSE IF c = "precision" THEN 2 ELSE 0

\* No fragment of an earlier category follows a fragment of a later one
CategoriesInOrder(ts) ==
    \A i, j \in 1..Len(ts) :
        (i < j /\ IsOperand(ts, i) /\ IsOperand(ts, j))
            => CategoryRank(CategoryAt(ts, i)) <= CategoryRank(CategoryAt(ts, j))

\* The categories that have a fragment in an expression
CategoriesIn(ts) == {CategoryAt(ts, i) : i \in {k \in 1..Len(ts) : IsOperand(ts, k)}}

\* Whether part occurs in whole as a run of consecutive tokens
OccursIn(part, whole) ==
    \E o \in 0..(Len(whole) - Len(part)) : SubSeq(whole, o + 1, o + Len(part)) = part

\* C4, as claimed: in every instance expression of every outcome but critical failure,
\* no untagged fragment follows a [precision] or [splash] fragment and no [precision]
\* fragment follows a [splash] fragment.
C4_OrderInEveryInstance ==
    Called => \A i \in 1..Len(pooled) : CategoriesInOrder(pooled[i].formula)

\* C4, amended: the categories are in order in every instance expression of a success
\* or a failure, and on a critical success in the non-critical sub-expression and in
\* the critical sub-expression, each on its own; the instance expression of a critical
\* success is the first followed by the second.
C4_OrderInEverySubExpression ==
    Called => \A i \in 1..Len(pooled) :
        /\ degree # DEGREE_OF_SUCCESS.CRITICAL_SUCCESS
               => /\ CategoriesInOrder(pooled[i].formula)
                  /\ pooled[i].critical = <<>>
        /\ CategoriesInOrder(pooled[i].nonCritical)
        /\ CategoriesInOrder(pooled[i].critical)
        /\ OccursIn(pooled[i].nonCritical, pooled[i].formula)
        /\ OccursIn(pooled[i].critical, pooled[i].formula)
        /\ (pooled[i].nonCritical # <<>> /\ pooled[i].critical # <<>>)
               => OccursIn(pooled[i].nonCritical \o <<Plus>> \o pooled[i].critical,
                           pooled[i].formula)

\* A critical success has been compiled whose non-critical sub-expression has an
\* untagged, a precision or a splash fragment, two of them at least, and whose
\* critical sub-expression is not empty
C4_Witness ==
    /\ pc = "compiled"
    /\ degree = DEGREE_OF_SUCCESS.CRITICAL_SUCCESS
    /\ \E i \in 1..Len(pooled) :
           /\ Cardinality(CategoriesIn(pooled[i].nonCritical)) >= 2
           /\ "splash" \in CategoriesIn(pooled[i].nonCritical)
           /\ pooled[i].critical # <<>>

----------------------------------------------------------------------------
(* The two doubling strategies *)

HasDoubledTag(ts) == \E i \in 1..Len(ts) : ts[i] = Flavor("doubled")

HasTimes(ts) == \E i \in 1..Len(ts) : ts[i] = Times

\* A multiplication of something other than one constant: `2 * (` or `2 * NdF`
MultipliesGroup(ts) ==
    \E i \in 1..Len(ts) : ts[i] = Times /\ (i = Len(ts) \/ ts[i + 1].k # "num")

\* Neither strategy
Undoubled(ts) == ~HasDoubledTag(ts) /\ ~HasTimes(ts)

\* The subtotal rule: `2 * ` in front of the whole expression, which is one term or one
\* parenthesized group, and nothing else doubled
SubtotalDoubled(ts) ==
    /\ Len(ts) >= 3
    /\ ts[1] = Num(2)
    /\ ts[2] = Times
    /\ LET rest == SubSeq(ts, 3, Len(ts))
       IN /\ Undoubled(rest)
          /\ \A i \in 1..Len(rest) : rest[i].k = "op" => Depth(rest, i) > 0
          /\ hasOperators(rest) => rest[1] = LP /\ MatchingLP(rest, Len(rest)) = 1

\* The dice-doubling rule: every dice group is `(NdF[doubled])` with N even, every
\* constant is `2 * c`, and nothing else is multiplied
DiceDoubled(ts) ==
    /\ \A i \in 1..Len(ts) :
           ts[i].k = "dice" => /\ i > 1 /\ i + 2 <= Len(ts)
                               /\ ts[i - 1] = LP
                               /\ ts[i + 1] = Flavor("doubled")
                               /\ ts[i + 2] = RP
                               /\ ts[i].n % 2 = 0
    /\ \A i \in 1..Len(ts) :
           (ts[i].k = "num" /\ IsOperand(ts, i)) => i > 2 /\ ts[i - 1] = Times
    /\ \A i \in 1..Len(ts) :
           ts[i] = Times => /\ i > 1 /\ i < Len(ts)
                            /\ ts[i - 1] = Num(2)
                            /\ ts[i + 1].k = "num"

\* C5: on a critical success the non-critical sub-expression of every instance is
\* doubled by the one strategy the critRule setting selects, the critical
\* sub-expression by none; no formula has both a [doubled] dice group and a multiplied
\* group; on a success or a failure nothing is doubled.
C5_OneDoublingStrategy ==
    (Called /\ ~result.isNull) =>
        /\ degree = DEGREE_OF_SUCCESS.CRITICAL_SUCCESS
               => \A i \in 1..Len(pooled) :
                      /\ Undoubled(pooled[i].critical)
                      /\ pooled[i].nonCritical # <<>>
                             => IF critRule = "doubledice"
                                THEN DiceDoubled(pooled[i].nonCritical)
                                ELSE SubtotalDoubled(pooled[i].nonCritical)
        /\ degree # DEGREE_OF_SUCCESS.CRITICAL_SUCCESS => Undoubled(result.formula)
        /\ ~(HasDoubledTag(result.formula) /\ MultipliesGroup(result.formula))

\* A critical success has been compiled under the dice-doubling rule, and an instance
\* has doubled dice and a doubled constant next to an undoubled critical sub-expression
C5_Witness ==
    /\ pc = "compiled"
    /\ degree = DEGREE_OF_SUCCESS.CRITICAL_SUCCESS
    /\ critRule = "doubledice"
    /\ \E i \in 1..Len(pooled) :
           /\ HasDoubledTag(pooled[i].nonCritical)
           /\ HasTimes(pooled[i].nonCritical)
           /\ pooled[i].critical # <<>>

----------------------------------------------------------------------------
(* Properties of combinePartialTerms *)

\* The dice counts of the dice partials with f faces, summed
SummedCount(ts, f) ==
    sum(Map(SelectSeq(ts, LAMBDA p : p.dice.present /\ p.dice.faces = f),
            LAMBDA p : p.dice.number))

\* C6: a dice group of the rendered expression has a summed dice count above 0, the sum
\* being over every dice partial of its face count, the negative ones too, and it is
\* rendered with that sum (twice the sum when the dice are doubled).
C6_GroupsSummedAndCancelled ==
    pc = "combined" =>
        \A i \in 1..Len(expression) :
            expression[i].k = "dice" =>
                LET total == SummedCount(terms, expression[i].f)
                IN /\ total > 0
                   /\ expression[i].n = IF doubleDice THEN 2 * total ELSE total

----------------------------------------------------------------------------
(* Critical-only modifiers, and the pooled formula *)

IsCriticalOnlyModifier(m) == m.enabled /\ m.critical = "true"

WithoutCriticalOnlyModifiers(d) ==
    [d EXCEPT !.modifiers = SelectSeq(d.modifiers, LAMBDA m : ~IsCriticalOnlyModifier(m))]

\* The first piece of every label of a breakdown
LabelHeads(bd) == {bd[k][1] : k \in 1..Len(bd)}

\* The partials of every list of a type map
PartialsOf(typeMap) ==
    UNION {Range(typeMap[i].partials) : i \in 1..Len(typeMap)}

\* No dice take part in the definition
NoDiceContribute(d) ==
    /\ ~BaseContributes(d.base)
    /\ ~HasEnabled(d.dice, LAMBDA e : TRUE)

\* C7: on a success or a failure an enabled modifier with critical = true is not in the
\* type map, the formula is the one of the definition without it, and its label is not
\* in the breakdown; a definition of nothing but such modifiers compiles to the formula
\* {} and an empty breakdown.
C7_CriticalOnlyModifierDropped ==
    (Called /\ degree \in {DEGREE_OF_SUCCESS.SUCCESS, DEGREE_OF_SUCCESS.FAILURE}) =>
        /\ \A p \in PartialsOf(grouped) : ~(p.dice = NoDice /\ p.critical = "true")
        /\ result.formula = FormulaOf(WithoutCriticalOnlyModifiers(original), degree)
        /\ \A i \in 1..Len(original.modifiers) :
               IsCriticalOnlyModifier(original.modifiers[i])
                   => ModifierLabel(original.modifiers[i])[1] \notin LabelHeads(result.breakdown)
        /\ (/\ NoDiceContribute(original)
            /\ \A i \in 1..Len(original.modifiers) :
                   IsCriticalOnlyModifier(original.modifiers[i]))
               => /\ result.formula = <<LBrace, RBrace>>
                  /\ result.breakdown = <<>>

\* A success has been compiled for a definition whose only content is an enabled
\* modifier with critical = true
C7_Witness ==
    /\ pc = "compiled"
    /\ degree = DEGREE_OF_SUCCESS.SUCCESS
    /\ NoDiceContribute(original)
    /\ Len(original.modifiers) = 1
    /\ IsCriticalOnlyModifier(original.modifiers[1])
    /\ Render(result.formula) = "{}"
    /\ result.breakdown = <<>>

\* The damage types of a definition in the order in which they enter the type map
TypeInsertionOrder(d, deg) ==
    LET kept == IF deg = DEGREE_OF_SUCCESS.FAILURE THEN SplashOnly(d) ELSE d
        TypeOf(e) == IF e.damageType # NULL THEN e.damageType ELSE d.base.damageType
        baseType == IF BaseContributes(d.base) THEN <<d.base.damageType>> ELSE <<>>
        dice == SelectSeq(kept.dice, LAMBDA e :
                    /\ e.enabled /\ e.diceNumber > 0
                    /\ (e.dieSize # NULL \/ d.base.dieSize # NULL))
        modifiers == SelectSeq(kept.modifiers, LAMBDA m :
                         /\ m.enabled
                         /\ (deg = DEGREE_OF_SUCCESS.CRITICAL_SUCCESS \/ m.critical # "true"))
    IN KeysInOrder(baseType \o Map(dice, TypeOf) \o Map(modifiers, TypeOf), {})

\* Where a damage type stands in a list of types
PositionIn(types, t) == CHOOSE k \in 1..Len(types) : types[k] = t

\* The partials of a (damage type, persistence) pair of the type map
PairPartials(typeMap, t, persistent) ==
    SelectSeq(MapGet(typeMap, t), LAMBDA p : (p.category = "persistent") = persistent)

HasInstance(is, t, persistent) ==
    \E a \in 1..Len(is) : is[a].damageType = t /\ is[a].persistent = persistent

\* C8: the formula is the instance formulas, joined with commas, in braces; the
\* instances are the non-persistent ones in the order in which their damage types
\* entered the type map, then the persistent ones in that order; the breakdown is their
\* label lists, one after the other; a (damage type, persistence) pair with an empty
\* expression has no instance, and no partial of it has a label in the breakdown.
C8_PooledInInstanceOrder ==
    (Called /\ ~result.isNull) =>
        LET types == TypeInsertionOrder(original, degree)
        IN /\ Map(grouped, LAMBDA e : e.damageType) = types
           /\ \A a \in 1..Len(pooled) :
                  /\ pooled[a].formula # <<>>
                  /\ pooled[a].nonCritical \o pooled[a].critical # <<>>
                  /\ pooled[a].damageType \in Range(types)
           /\ \A a, b \in 1..Len(pooled) :
                  a < b => \/ ~pooled[a].persistent /\ pooled[b].persistent
                           \/ /\ pooled[a].persistent = pooled[b].persistent
                              /\ PositionIn(types, pooled[a].damageType)
                                     < PositionIn(types, pooled[b].damageType)
           /\ result.formula = <<LBrace>> \o Join(Map(pooled, LAMBDA i : i.formula), Comma)
                                          \o <<RBrace>>
           /\ result.breakdown = Flat(Map(pooled, LAMBDA i : i.breakdown))
           /\ \A t \in Range(types) : \A persistent \in BOOLEAN :
                  ~HasInstance(pooled, t, persistent)
                      => \A p \in Range(PairPartials(grouped, t, persistent)) :
                             p.label[1] \notin LabelHeads(result.breakdown)

\* A call has pooled an instance of one damage type after dropping the pair of a damage
\* type that entered the type map before it: the flat amounts of that pair cancel
C8_Witness ==
    /\ pc = "compiled"
    /\ degree = DEGREE_OF_SUCCESS.SUCCESS
    /\ Len(grouped) = 2
    /\ Len(PairPartials(grouped, grouped[1].damageType, FALSE)) = 2
    /\ \A p \in Range(grouped[1].partials) : p.critical = "null"
    /\ Len(pooled) = 1
    /\ pooled[1].damageType = grouped[2].damageType
    /\ Len(result.breakdown) = 1

----------------------------------------------------------------------------
(* The example of the specification *)

Example ==
    [base |-> [diceNumber |-> 2, dieSize |-> "d6", modifier |-> 0, damageType |-> "fire",
               category |-> NULL, materials |-> <<>>],
     dice |-> <<[label |-> "dice1", diceNumber |-> 1, dieSize |-> "d4",
                 damageType |-> "fire", category |-> "splash", critical |-> "null",
                 enabled |-> TRUE]>>,
     modifiers |-> <<[label |-> "mod1", value |-> 3, damageType |-> "fire",
                      damageCategory |-> NULL, critical |-> "null", enabled |-> TRUE]>>]

\* The operands of an expression
Operands(ts) == {ts[i] : i \in {k \in 1..Len(ts) : IsOperand(ts, k)}}

\* C9, as claimed: the example compiled at FAILURE has the splash dice term 1d4[splash]
\* alone: neither the 2d6 of the base term nor the 3 of the modifier is in the formula.
C9_OnlySplashDice ==
    (Called /\ original = Example /\ degree = DEGREE_OF_SUCCESS.FAILURE)
        => Operands(result.formula) = {Dice(1, 4)}

\* C9, amended: the example compiled at FAILURE gives {(2d6 + 1d4[splash])[fire]}: the
\* base term 2d6 and the splash dice term 1d4[splash], without the 3 of the modifier.
C9_BaseAndSplashDice ==
    (Called /\ original = Example /\ degree = DEGREE_OF_SUCCESS.FAILURE)
        => /\ Render(result.formula) = "{(2d6 + 1d4[splash])[fire]}"
           /\ Operands(result.formula) = {Dice(2, 6), Dice(1, 4)}

\* The example has been compiled at FAILURE
C9_Witness ==
    /\ pc = "compiled"
    /\ original = Example
    /\ degree = DEGREE_OF_SUCCESS.FAILURE
    /\ ~result.isNull

\* C10, as claimed: the example compiled at CRITICAL_SUCCESS under the subtotal rule
\* has the non-critical fire sub-expression 2 * (2d6 + 1d4[splash] + 3).
C10_ModifierAfterSplash ==
    (Called /\ original = Example /\ degree = DEGREE_OF_SUCCESS.CRITICAL_SUCCESS
            /\ critRule = "doubledamage")
        => /\ Len(pooled) = 1
           /\ Render(pooled[1].nonCritical) = "2 * (2d6 + 1d4[splash] + 3)"

\* C10, amended: that sub-expression is 2 * (2d6 + 3 + 1d4[splash]), the untagged
\* modifier ahead of the splash dice, and the formula is {(2 * (2d6 + 3 + 1d4[splash]))[fire]}.
C10_ModifierBeforeSplash ==
    (Called /\ original = Example /\ degree = DEGREE_OF_SUCCESS.CRITICAL_SUCCESS
            /\ critRule = "doubledamage")
        => /\ Len(pooled) = 1
           /\ pooled[1].damageType = "fire" /\ ~pooled[1].persistent
           /\ Render(pooled[1].nonCritical) = "2 * (2d6 + 3 + 1d4[splash])"
           /\ pooled[1].critical = <<>>
           /\ Render(result.formula) = "{(2 * (2d6 + 3 + 1d4[splash]))[fire]}"

\* The example has been compiled at CRITICAL_SUCCESS under the subtotal rule
C10_Witness ==
    /\ pc = "compiled"
    /\ original = Example
    /\ degree = DEGREE_OF_SUCCESS.CRITICAL_SUCCESS
    /\ critRule = "doubledamage"
    /\ Len(pooled) = 1

----------------------------------------------------------------------------
(* The head of an instance expression *)

\* The flavor tag that instancesFromTypeMap attached to the instance
TagOf(inst) == flavor(inst.damageType, MapGet(grouped, inst.damageType), inst.persistent)

\* The instance expression without that tag
HeadOf(inst) == SubSeq(inst.formula, 1, Len(inst.formula) - Len(TagOf(inst)))

\* One group in parentheses: the first token opens what the last token closes
IsOneGroup(ts) ==
    /\ Len(ts) >= 2
    /\ ts[1] = LP
    /\ ts[Len(ts)] = RP
    /\ MatchingLP(ts, Len(ts)) = 1

\* A bare NdF or integer token
IsBareToken(ts) == Len(ts) = 1 /\ ts[1].k \in {"dice", "num"} /\ ts[1].n >= 0

\* C11: in every instance of every outcome and of both doubling rules, what the flavor
\* tag is attached to is one group in parentheses or a bare NdF or integer token, so
\* that the tag applies to the whole instance expression and never to its last term.
C11_TagAppliesToWholeExpression ==
    Called => \A i \in 1..Len(pooled) :
        IsOneGroup(HeadOf(pooled[i])) \/ IsBareToken(HeadOf(pooled[i]))

----------------------------------------------------------------------------
(* How often a partial is counted *)

\* Whether the operand at i is multiplied by 2: `2 * ` stands in front of it or in
\* front of a group in parentheses that it is in
IsMultiplied(ts, i) ==
    \/ i > 1 /\ ts[i - 1] = Times
    \/ \E r \in (i + 1)..Len(ts) :
           /\ ts[r] = RP
           /\ MatchingLP(ts, r) < i
           /\ MatchingLP(ts, r) > 1
           /\ ts[MatchingLP(ts, r) - 1] = Times

\* What the operand at i adds to the expression, a subtracted amount by its magnitude
Counted(ts, i) == IF IsMultiplied(ts, i) THEN 2 * ts[i].n ELSE ts[i].n

\* What an expression has of category c with f faces: the number of dice, or with
\* f = 0 the flat amount
Amount(ts, c, f) ==
    sum([i \in 1..Len(ts) |->
            IF IsOperand(ts, i) /\ ts[i].f = f /\ CategoryAt(ts, i) = c
            THEN Counted(ts, i)
            ELSE 0])

\* The category that a partial's fragment is tagged with: persistent has no tag
TagCategory(p) == IF p.category = "persistent" THEN NULL ELSE p.category

\* Whether a partial of the inclusion set goes to the fragment of category c
Admitted(p, inclusion, c) == p.critical \in inclusion /\ TagCategory(p) = c

\* The dice with f faces of the partials of the inclusion set with category c, each
\* partial once
DiceAdmitted(partials, inclusion, c, f) ==
    sum([i \in 1..Len(partials) |->
            IF Admitted(partials[i], inclusion, c) /\ partials[i].dice.present
                                                   /\ partials[i].dice.faces = f
            THEN partials[i].dice.number
            ELSE 0])

\* The flat amount of those partials, each partial once
FlatAdmitted(partials, inclusion, c) ==
    Abs(sum([i \in 1..Len(partials) |->
                IF Admitted(partials[i], inclusion, c) THEN partials[i].modifier ELSE 0]))

AmountAdmitted(partials, inclusion, c, f) ==
    IF f = 0 THEN FlatAdmitted(partials, inclusion, c)
    ELSE DiceAdmitted(partials, inclusion, c, f)

\* The partials that an instance was made from
InstancePartials(inst) ==
    PersistencePartials(MapGet(grouped, inst.damageType), inst.persistent)

\* An expression counts the partials of the inclusion set `times` times each, in the
\* fragment of their category
Counts(ts, partials, inclusion, times) ==
    \A c \in {NULL, "precision", "splash"}, f \in {0} \cup DieFaces :
        Amount(ts, c, f) = times * AmountAdmitted(partials, inclusion, c, f)

\* The instance of a critical success: partials with critical = null twice in the
\* non-critical sub-expression, those with false or true once in the critical one
CountedOnCritical(inst, partials) ==
    /\ Counts(inst.nonCritical, partials, {"null"}, 2)
    /\ Counts(inst.critical, partials, {"false", "true"}, 1)
    /\ Undoubled(inst.critical)

\* The instance of a success or a failure: partials with critical = null or false once
CountedOtherwise(inst, partials) ==
    /\ inst.critical = <<>>
    /\ Counts(inst.nonCritical, partials, {"null", "false"}, 1)
    /\ Undoubled(inst.nonCritical)

\* C12: on a critical success an instance counts every partial by its critical flag:
\* null, twice and in the non-critical sub-expression only; false or true, once and in
\* the critical sub-expression only, which has no `2 * ` and no [doubled] dice. On a
\* success or a failure there is no critical sub-expression, and the partials with
\* null or false are counted once each, without any doubling.
C12_CountedByCriticalFlag ==
    Called => \A i \in 1..Len(pooled) :
        IF degree = DEGREE_OF_SUCCESS.CRITICAL_SUCCESS
        THEN CountedOnCritical(pooled[i], InstancePartials(pooled[i]))
        ELSE CountedOtherwise(pooled[i], InstancePartials(pooled[i]))

HasCritical(partials, critical) ==
    \E i \in 1..Len(partials) : partials[i].critical = critical

\* A critical success has been compiled with an instance that has a partial with
\* critical = null, doubled, and one with false or true in its critical sub-expression
C12_Witness ==
    /\ pc = "compiled"
    /\ degree = DEGREE_OF_SUCCESS.CRITICAL_SUCCESS
    /\ \E i \in 1..Len(pooled) :
           /\ HasCritical(InstancePartials(pooled[i]), "null")
           /\ \/ HasCritical(InstancePartials(pooled[i]), "false")
              \/ HasCritical(InstancePartials(pooled[i]), "true")
           /\ ~Undoubled(pooled[i].nonCritical)
           /\ pooled[i].critical # <<>>

----------------------------------------------------------------------------
(* The sign of the flat amount *)

\* The flat amount that an expression ends with when it subtracts n
Subtracted(n, dbl) ==
    IF dbl THEN <<Minus, Num(2), Times, Num(n)>> ELSE <<Minus, Num(n)>>

\* Whether an expression ends with a run of tokens
EndsWith(ts, part) ==
    Len(ts) >= Len(part) /\ SubSeq(ts, Len(ts) - Len(part) + 1, Len(ts)) = part

\* C13: when the flat modifiers of the terms sum to a negative constant, the rendered
\* expression subtracts its magnitude: the constant is preceded by a minus operator,
\* with dice groups in front of it or without.
C13_NegativeConstantSubtracted ==
    (pc = "combined" /\ ConstantOf(terms) < 0)
        => EndsWith(expression, Subtracted(Abs(ConstantOf(terms)), doubleDice))

====
